---- MODULE Spec2Model ----
(***************************************************************************)
(* doctalk: the retrieval / governance / generation pipeline of RAGEngine  *)
(* (src/src/core/rag.py) and the ingestion that feeds its vector store     *)
(* (Spec), overlapping ingests in executor threads (SpecThreads), and the  *)
(* session registry behind the API endpoints (SpecRegistry).  Further      *)
(* specifications follow single aspects: SpecFair (scheduling of the       *)
(* nodes), SpecCitations (the citations of ask), SpecOffload (requests     *)
(* while a worker runs), SpecLifespan (startup, shutdown, /health),        *)
(* SpecCancel (cancelled uploads), SpecAsks (two asks at once) and         *)
(* SpecFailure (a failing index query).                                    *)
(*                                                                         *)
(* Text is modelled as a sequence of one-character strings, so that        *)
(* str.lower, str.upper, str.strip, str.split, str.replace, the `in`       *)
(* substring test and the SOURCES regular expression are computed the way  *)
(* Python computes them.  The external collaborators (document loader,     *)
(* vector index, chat model) are nondeterministic choices over small       *)
(* concrete pools.                                                         *)
(***************************************************************************)
EXTENDS Integers, Sequences, FiniteSets, TLC

VARIABLES
    vector_store,   \* RAGEngine.vector_store: [created, docs]; created = FALSE is None
    ingest_result,  \* what the last ingest_files call gave its caller
    pc,             \* position of the current ask in the compiled graph
    state,          \* GraphState of the current ask
    result,         \* the dict ask returned
    retrieved,      \* history: what retriever.invoke returned in this ask
    llm,            \* history: outcome of chain.ainvoke in this ask
    llm_calls,      \* history: number of chat model invocations in this ask
    index_queries,  \* history: number of similarity queries in this ask
    trace,          \* history: nodes run in this ask, in order
    other,          \* a second ask running on the same engine: [pc, state, result, llm]
    workers,        \* executor threads running _ingest_sync on the engine
    ingested_total, \* history: sum of the counts the threads' ingests returned
    sessions,       \* SessionManager._sessions: session id -> engine, or Absent
    engines,        \* the RAGEngine objects get_engine has constructed
    reqs,           \* the /upload and /chat requests in flight
    running,        \* the request whose dependency holds the event loop
    chat_result,    \* the response of the /chat request that has just returned
    clear_raised,   \* an exception has left clear_session
    lifespan,       \* position of the application's lifespan context
    session_manager, \* the module global of api/chat.py: None or the manager
    http_response   \* the /health answer or the rejection that has just left

\* the state of the ask that Spec follows node by node
ask_vars == << pc, state, result, retrieved, llm, llm_calls, index_queries, trace, other >>

\* what the executor threads add to one engine
thread_vars == << workers, ingested_total >>

\* the registry, its engines and the requests of the API
registry_vars ==
    << sessions, engines, reqs, running, chat_result, clear_raised,
       lifespan, session_manager, http_response >>

\* one engine on its own
engine_vars == << vector_store, ingest_result, ask_vars, thread_vars >>

vars == << engine_vars, registry_vars >>

----------------------------------------------------------------------------
\* Bounds and program constants

\* Largest number of chunks the model lets a vector store hold.
MaxStore == 4

\* Largest number of chunks the engines of the registry hold together.
MaxSessionStore == 2

\* search_kwargs={"k": 3}
K == 3

\* d.page_content[:100]
SNIPPET_LEN == 100

\* chunks in the index while two asks run at once
MaxAsksStore == 2

\* longest chunk text of the citation runs
MaxContent == 160

----------------------------------------------------------------------------
\* Python string operations on sequences of characters

Min(S) == CHOOSE x \in S : \A y \in S : x <= y

LOWER_LETTERS ==
    << "a", "b", "c", "d", "e", "f", "g", "h", "i", "j", "k", "l", "m",
       "n", "o", "p", "q", "r", "s", "t", "u", "v", "w", "x", "y", "z" >>

UPPER_LETTERS ==
    << "A", "B", "C", "D", "E", "F", "G", "H", "I", "J", "K", "L", "M",
       "N", "O", "P", "Q", "R", "S", "T", "U", "V", "W", "X", "Y", "Z" >>

\* the case mappings of the ASCII letters (other characters map to themselves)
TO_UPPER == [ c \in { LOWER_LETTERS[i] : i \in 1..26 } |->
                UPPER_LETTERS[CHOOSE i \in 1..26 : LOWER_LETTERS[i] = c] ]

TO_LOWER == [ c \in { UPPER_LETTERS[i] : i \in 1..26 } |->
                LOWER_LETTERS[CHOOSE i \in 1..26 : UPPER_LETTERS[i] = c] ]

\* str.upper on one character
UpperChar(c) == IF c \in DOMAIN TO_UPPER THEN TO_UPPER[c] ELSE c

\* str.lower on one character
LowerChar(c) == IF c \in DOMAIN TO_LOWER THEN TO_LOWER[c] ELSE c

\* str.upper()
Upper(s) == [i \in 1..Len(s) |-> UpperChar(s[i])]

\* str.lower()
Lower(s) == [i \in 1..Len(s) |-> LowerChar(s[i])]

\* p in s  (substring test)
Contains(s, p) ==
    \E i \in 0..(Len(s) - Len(p)) : SubSeq(s, i + 1, i + Len(p)) = p

\* s.strip(chars): drop leading and trailing characters that are in chars
StripChars(s, chars) ==
    LET keep == { i \in 1..Len(s) : s[i] \notin chars }
    IN  IF keep = {} THEN << >>
        ELSE SubSeq(s, Min(keep), CHOOSE j \in keep : \A k \in keep : k <= j)

\* the characters str.strip() with no argument removes
WHITESPACE == { " ", "\n", "\t", "\r" }

\* the argument of question.lower().strip("!.,? ")
GREETING_STRIP == { "!", ".", ",", "?", " " }

\* s.strip()
Strip(s) == StripChars(s, WHITESPACE)

\* s.split(sep) for a one-character separator: the list of fields
RECURSIVE Split(_, _)
Split(s, sep) ==
    LET cuts == { i \in 1..Len(s) : s[i] = sep }
    IN  IF cuts = {} THEN << s >>
        ELSE << SubSeq(s, 1, Min(cuts) - 1) >>
             \o Split(SubSeq(s, Min(cuts) + 1, Len(s)), sep)

\* s.replace(old, new) for non-empty old: left to right, non-overlapping
RECURSIVE Replace(_, _, _)
Replace(s, old, new) ==
    IF Len(old) = 1 /\ Len(new) = 1
    THEN [ i \in 1..Len(s) |-> IF s[i] = old[1] THEN new[1] ELSE s[i] ]
    ELSE IF Len(s) < Len(old) THEN s
    ELSE IF SubSeq(s, 1, Len(old)) = old
         THEN new \o Replace(SubSeq(s, Len(old) + 1, Len(s)), old, new)
         ELSE << s[1] >> \o Replace(Tail(s), old, new)

\* s[:n]
Take(s, n) == SubSeq(s, 1, IF Len(s) < n THEN Len(s) ELSE n)

Range(xs) == { xs[i] : i \in 1..Len(xs) }

----------------------------------------------------------------------------
\* Literal texts of the program

REFUSAL ==
    << "U+1F6D1", " ", "*", "*", "S", "e", "c", "u", "r", "i", "t", "y", " ", "A", "l", "e",
       "r", "t", ":", "*", "*", " ", "A", "c", "c", "e", "s", "s", " ", "d", "e", "n", "i",
       "e", "d", ".", " ", "O", "n", "e", " ", "o", "r", " ", "m", "o", "r", "e", " ", "r",
       "e", "t", "r", "i", "e", "v", "e", "d", " ", "d", "o", "c", "u", "m", "e", "n", "t",
       "s", " ", "a", "r", "e", " ", "m", "a", "r", "k", "e", "d", " ", "C", "O", "N", "F",
       "I", "D", "E", "N", "T", "I", "A", "L", "." >>

ONBOARDING ==
    << "H", "e", "l", "l", "o", "!", " ", "I", " ", "d", "o", "n", "'", "t", " ", "s", "e",
       "e", " ", "a", "n", "y", " ", "d", "o", "c", "u", "m", "e", "n", "t", "s", " ", "y",
       "e", "t", ".", " ", "P", "l", "e", "a", "s", "e", " ", "*", "*", "u", "p", "l", "o",
       "a", "d", " ", "a", " ", "f", "i", "l", "e", "*", "*", " ", "i", "n", " ", "t", "h",
       "e", " ", "s", "i", "d", "e", "b", "a", "r", " ", "t", "o", " ", "g", "e", "t", " ",
       "s", "t", "a", "r", "t", "e", "d", "." >>

READY ==
    << "H", "e", "l", "l", "o", "!", " ", "Y", "o", "u", "r", " ", "d", "o", "c", "u", "m",
       "e", "n", "t", "s", " ", "a", "r", "e", " ", "i", "n", "d", "e", "x", "e", "d", " ",
       "a", "n", "d", " ", "r", "e", "a", "d", "y", ".", " ", "*", "*", "W", "h", "a", "t",
       " ", "w", "o", "u", "l", "d", " ", "y", "o", "u", " ", "l", "i", "k", "e", " ", "t",
       "o", " ", "k", "n", "o", "w", "?", "*", "*" >>

NOT_FOUND ==
    << "I", " ", "c", "a", "n", "n", "o", "t", " ", "f", "i", "n", "d", " ", "t", "h", "e",
       " ", "a", "n", "s", "w", "e", "r", " ", "i", "n", " ", "t", "h", "e", " ", "p", "r",
       "o", "v", "i", "d", "e", "d", " ", "d", "o", "c", "u", "m", "e", "n", "t", "s", "." >>

ERROR_PREFIX ==
    << "E", "r", "r", "o", "r", " ", "g", "e", "n", "e", "r", "a", "t", "i", "n", "g", " ",
       "a", "n", "s", "w", "e", "r", ":", " " >>

ELLIPSIS ==
    << ".", ".", "." >>

CONFIDENTIAL ==
    << "C", "O", "N", "F", "I", "D", "E", "N", "T", "I", "A", "L" >>

DO_NOT_SHARE ==
    << "D", "O", " ", "N", "O", "T", " ", "S", "H", "A", "R", "E" >>

SOURCES_HEAD ==
    << "S", "O", "U", "R", "C", "E", "S", ":", " ", "[" >>

W_hi ==
    << "h", "i" >>

W_hello ==
    << "h", "e", "l", "l", "o" >>

W_hey ==
    << "h", "e", "y" >>

W_hola ==
    << "h", "o", "l", "a" >>

W_greetings ==
    << "g", "r", "e", "e", "t", "i", "n", "g", "s" >>

W_thanks ==
    << "t", "h", "a", "n", "k", "s" >>

X_pdf ==
    << "p", "d", "f" >>

X_docx ==
    << "d", "o", "c", "x" >>

X_doc ==
    << "d", "o", "c" >>

X_txt ==
    << "t", "x", "t" >>

X_md ==
    << "m", "d" >>

Q_hi ==
    << "h", "i" >>

Q_hello ==
    << "H", "e", "l", "l", "o", "!" >>

Q_thanks ==
    << " ", "t", "h", "a", "n", "k", "s", "." >>

Q_greetings ==
    << "G", "R", "E", "E", "T", "I", "N", "G", "S" >>

Q_hey_nl ==
    << "h", "e", "y", "\n" >>

Q_what ==
    << "w", "h", "a", "t", "?" >>

F_a ==
    << "a", ".", "p", "d", "f" >>

F_data ==
    << "D", "a", "t", "a", ".", "P", "D", "F" >>

F_s ==
    << "s", ".", "t", "x", "t" >>

F_n ==
    << "n", ".", "m", "d" >>

F_e ==
    << "e", ".", "t", "x", "t" >>

F_x ==
    << "x", ".", "e", "x", "e" >>

T_alpha ==
    << "c", "o", "n", "f", "i", "d", "e", "n", "t", " ", "a", "l", "l", "y" >>

T_beta ==
    << "b", "e", "t", "a", "\n", "r", "o", "w" >>

T_secret ==
    << "t", "o", "p", " ", "C", "o", "n", "f", "i", "d", "e", "n", "t", "i", "a", "l" >>

T_gamma ==
    << "g", "a", "m", "m", "a" >>

T_dns ==
    << "d", "o", " ", "n", "o", "t", " ", "S", "h", "a", "r", "e" >>

R_a ==
    << "o", "k", " ", "S", "O", "U", "R", "C", "E", "S", ":", " ", "[", "a", ".", "p", "d",
       "f", "]" >>

R_data ==
    << "o", "k", "\n", "s", "o", "u", "r", "c", "e", "s", ":", " ", "[", "\n", "D", "A",
       "T", "A", ".", "p", "d", "f", " ", ",", "]", " " >>

R_empty ==
    << "o", "k", " ", "S", "O", "U", "R", "C", "E", "S", ":", " ", "[", "]" >>

R_zz ==
    << "o", "k", " ", "S", "O", "U", "R", "C", "E", "S", ":", " ", "[", "z", "z", ".", "p",
       "d", "f", "]" >>

R_plain ==
    << "o", "k" >>

R_padded ==
    << " ", "o", "k", " ", "S", "O", "U", "R", "C", "E", "S", ":", " ", "[", "a", " " >>

R_two ==
    << "S", "O", "U", "R", "C", "E", "S", ":", " ", "[", "n", ".", "m", "d", "]", "\n", "S",
       "o", "u", "r", "c", "e", "s", ":", " ", "[", "a", ".", "p", "d", "f", "]" >>

E_quota ==
    << "q", "u", "o", "t", "a" >>

----------------------------------------------------------------------------
\* Inputs: questions, files, upload batches, chat model outcomes

\* questions a caller may pass to ask
Questions == { Q_hi, Q_hello, Q_thanks, Q_greetings, Q_hey_nl, Q_what }

\* uploaded files by number: filename, and the texts the loader and the
\* splitter give for it (the document chunker is an external collaborator)
FileName == << F_a, F_data, F_s, F_n, F_e, F_x >>

FileTexts == << << T_alpha >>, << T_beta >>, << T_gamma, T_secret >>,
                << T_dns, T_gamma >>, << >>, << T_gamma >> >>

\* the lists of files a caller may pass to ingest_files
Batches == { << 1 >>, << 2 >>, << 3 >>, << 4 >>, << 5 >>, << 6 >>,
             << 1, 2 >>, << 5, 3 >>, << 1, 6 >> }

\* texts chain.ainvoke may return, and errors it may raise
RawOutputs == { R_a, R_data, R_empty, R_zz, R_plain, R_padded, R_two }

LlmErrors == { E_quota }

LlmOutcomes ==
    [ kind : { "ok" }, text : RawOutputs ] \cup [ kind : { "raise" }, text : LlmErrors ]

NoLlm == [ kind |-> "none", text |-> << >> ]

----------------------------------------------------------------------------
\* IngestionEngine

\* filename.split(".")[-1].lower()
Ext(filename) ==
    LET parts == Split(filename, ".") IN Lower(parts[Len(parts)])

\* _get_loader accepts the extension (otherwise it raises ValueError)
Supported(ext) == ext \in { X_pdf, X_docx, X_doc, X_txt, X_md }

\* ext of each file of the pool
FILE_EXT == [ f \in DOMAIN FileName |-> Ext(FileName[f]) ]

\* process_file raises for this file
ProcessRaises(f) == ~Supported(FILE_EXT[f])

\* process_file: the chunks of file f, each tagged metadata["source"] = filename
ProcessFile(f) ==
    [ i \in 1..Len(FileTexts[f]) |->
        [ page_content |-> FileTexts[f][i], source |-> FileName[f] ] ]

\* the loop of _ingest_sync over the batch: all_chunks
RECURSIVE AllChunks(_)
AllChunks(files) ==
    IF files = << >> THEN << >>
    ELSE ProcessFile(Head(files)) \o AllChunks(Tail(files))

----------------------------------------------------------------------------
\* Nodes of the graph, as functions of the state they read

\* the greeting sets of _retrieve_node and of _generate_node
RETRIEVE_GREETINGS == { W_hi, W_hello, W_hey, W_hola, W_greetings, W_thanks }

GENERATE_GREETINGS == { W_hi, W_hello, W_hey, W_hola }

\* question.lower().strip("!.,? ")
CleanedQ(question) == StripChars(Lower(question), GREETING_STRIP)

\* a greeting test that forgets .lower()
ChitChatNoLower(question) == StripChars(question, GREETING_STRIP) \in RETRIEVE_GREETINGS

\* _retrieve_node skips the index for this question
ChitChat(question) == CleanedQ(question) \in RETRIEVE_GREETINGS

\* the greeting test of _generate_node
GenerateGreets(question) == CleanedQ(question) \in GENERATE_GREETINGS

\* an index that ignores k and returns every chunk it holds
RetrievalsAll(docs) ==
    { [ i \in 1..Len(docs) |-> docs[p[i]] ] :
        p \in { q \in [1..Len(docs) -> 1..Len(docs)] :
                  \A a, b \in 1..Len(docs) : a # b => q[a] # q[b] } }

\* retriever.invoke(question) with k = 3: the vector index returns the
\* min(k, n) nearest chunks, nearest first; which ones and in which order is
\* the index's choice
Retrievals(docs) ==
    LET n == IF Len(docs) < K THEN Len(docs) ELSE K
    IN  { [ i \in 1..n |-> docs[p[i]] ] :
            p \in { q \in [1..n -> 1..Len(docs)] :
                      \A a, b \in 1..n : a # b => q[a] # q[b] } }

\* a governance test that fires on every document
ViolatesAny(doc) == TRUE

\* a governance test that forgets .upper(): the markers are matched as written
ViolatesCaseSensitive(doc) ==
    \/ Contains(doc.page_content, CONFIDENTIAL)
    \/ Contains(doc.page_content, DO_NOT_SHARE)

\* the test of _governance_node on one document
Violates(doc) ==
    \/ Contains(Upper(doc.page_content), CONFIDENTIAL)
    \/ Contains(Upper(doc.page_content), DO_NOT_SHARE)

\* a governance node that blocks without writing the refusal message
GovernanceNodeNoMessage(docs) ==
    IF \E i \in 1..Len(docs) : Violates(docs[i])
    THEN [ is_safe |-> FALSE, generation |-> << >>, sets_generation |-> FALSE,
           scanned |-> Min({ i \in 1..Len(docs) : Violates(docs[i]) }) ]
    ELSE [ is_safe |-> TRUE, generation |-> << >>, sets_generation |-> FALSE,
           scanned |-> Len(docs) ]

\* a governance node that tests every document before it decides
GovernanceNodeScansAll(docs) ==
    IF \E i \in 1..Len(docs) : Violates(docs[i])
    THEN [ is_safe |-> FALSE, generation |-> REFUSAL, sets_generation |-> TRUE,
           scanned |-> Len(docs) ]
    ELSE [ is_safe |-> TRUE, generation |-> << >>, sets_generation |-> FALSE,
           scanned |-> Len(docs) ]

\* _governance_node: the partial state it returns, and how many documents the
\* loop tested before it returned (scanned)
GovernanceNode(docs) ==
    IF \E i \in 1..Len(docs) : Violates(docs[i])
    THEN [ is_safe |-> FALSE, generation |-> REFUSAL, sets_generation |-> TRUE,
           scanned |-> Min({ i \in 1..Len(docs) : Violates(docs[i]) }) ]
    ELSE [ is_safe |-> TRUE, generation |-> << >>, sets_generation |-> FALSE,
           scanned |-> Len(docs) ]

\* a graph whose node generate leads back to node retrieve
EdgeFromLoops(node) == IF node = "retrieve" THEN "governance" ELSE "retrieve"

\* _build_graph: the two unconditional edges, retrieve -> governance and
\* generate -> END
EdgeFrom(node) == IF node = "retrieve" THEN "governance" ELSE "END"

\* a conditional edge that routes every request to "generate"
CheckSafetyAlwaysSafe(st) == "safe"

\* _check_safety: the branch of the conditional edge
CheckSafety(st) == IF st.is_safe THEN "safe" ELSE "unsafe"

\* re.search(r"SOURCES: \[(.*?)\]", raw, re.DOTALL | re.IGNORECASE):
\* the leftmost start with the nearest closing bracket
SourcesMatch(raw) ==
    LET heads  == { i \in 1..(Len(raw) - Len(SOURCES_HEAD) + 1) :
                      Upper(SubSeq(raw, i, i + Len(SOURCES_HEAD) - 1)) = SOURCES_HEAD }
        closes(i) == { j \in (i + Len(SOURCES_HEAD))..Len(raw) : raw[j] = "]" }
        starts == { i \in heads : closes(i) # {} }
    IN  IF starts = {} THEN [ found |-> FALSE, group0 |-> << >>, group1 |-> << >> ]
        ELSE LET s == Min(starts)
                 e == Min(closes(s))
             IN  [ found  |-> TRUE,
                   group0 |-> SubSeq(raw, s, e),
                   group1 |-> SubSeq(raw, s + Len(SOURCES_HEAD), e - 1) ]

\* [s.strip() for s in source_str.split(",") if s.strip()]
UsedFilenames(source_str) ==
    LET fields == Split(source_str, ",")
        NonEmpty(x) == x # << >>
    IN  SelectSeq([ i \in 1..Len(fields) |-> Strip(fields[i]) ], NonEmpty)

\* a source filter that forgets .lower() on both sides
SourceUsedCaseSensitive(doc, used) ==
    \E i \in 1..Len(used) : Contains(doc.source, used[i])

\* any(u.lower() in doc_source for u in used_filenames)
SourceUsed(doc, used) ==
    \E i \in 1..Len(used) : Contains(Lower(doc.source), Lower(used[i]))

\* a parse-and-filter block that keeps every listed chunk twice
ReconcileDuplicates(raw, documents) ==
    LET m == SourcesMatch(raw)
        used == UsedFilenames(m.group1)
        Keep(doc) == SourceUsed(doc, used)
        filtered_docs == SelectSeq(documents, Keep)
    IN  IF m.found
        THEN [ generation |-> Strip(Replace(raw, m.group0, << >>)),
               documents  |-> IF filtered_docs # << >>
                              THEN filtered_docs \o filtered_docs ELSE documents ]
        ELSE [ generation |-> raw, documents |-> documents ]

\* a parse-and-filter block without `if filtered_docs:`: an empty filter result
\* replaces the documents
ReconcileNoFallback(raw, documents) ==
    LET m == SourcesMatch(raw)
        used == UsedFilenames(m.group1)
        Keep(doc) == SourceUsed(doc, used)
        filtered_docs == SelectSeq(documents, Keep)
    IN  IF m.found
        THEN [ generation |-> Strip(Replace(raw, m.group0, << >>)),
               documents  |-> filtered_docs ]
        ELSE [ generation |-> raw, documents |-> documents ]

\* a parse-and-filter block that strips the answer on every path
ReconcileAlwaysStrip(raw, documents) ==
    LET m == SourcesMatch(raw)
        used == UsedFilenames(m.group1)
        Keep(doc) == SourceUsed(doc, used)
        filtered_docs == SelectSeq(documents, Keep)
    IN  IF m.found
        THEN [ generation |-> Strip(Replace(raw, m.group0, << >>)),
               documents  |-> IF filtered_docs # << >> THEN filtered_docs ELSE documents ]
        ELSE [ generation |-> Strip(raw), documents |-> documents ]

\* the parse-and-filter block of _generate_node on the raw response
Reconcile(raw, documents) ==
    LET m == SourcesMatch(raw)
        used == UsedFilenames(m.group1)
        Keep(doc) == SourceUsed(doc, used)
        filtered_docs == SelectSeq(documents, Keep)
    IN  IF m.found
        THEN [ generation |-> Strip(Replace(raw, m.group0, << >>)),
               documents  |-> IF filtered_docs # << >> THEN filtered_docs ELSE documents ]
        ELSE [ generation |-> raw, documents |-> documents ]

\* fixed messages that test the greeting before the index
NoDocsMessageGreetingFirst(question, store) ==
    IF GenerateGreets(question) THEN READY
    ELSE IF ~store.created THEN ONBOARDING
    ELSE NOT_FOUND

\* _generate_node with no documents: the fixed messages
NoDocsMessage(question, store) ==
    IF ~store.created THEN ONBOARDING
    ELSE IF GenerateGreets(question) THEN READY
    ELSE NOT_FOUND

\* the except branch of _generate_node: f"Error generating answer: {e}"
ErrorAnswer(e) == ERROR_PREFIX \o e

\* one citation of ask
Citation(d) ==
    [ source |-> d.source,
      text   |-> Replace(Take(d.page_content, SNIPPET_LEN), << "\n" >>, << " " >>)
                 \o ELLIPSIS ]

\* the citations list of ask
Citations(documents) == [ i \in 1..Len(documents) |-> Citation(documents[i]) ]

\* a _generate_node without its try/except: a chat model error leaves the node
GenerateNodeNoExcept(question, documents, store, o) ==
    IF documents = << >>
    THEN [ generation |-> NoDocsMessage(question, store), documents |-> documents,
           called |-> FALSE, raised |-> FALSE ]
    ELSE IF o.kind = "ok"
    THEN LET parsed == Reconcile(o.text, documents)
         IN  [ generation |-> parsed.generation, documents |-> parsed.documents,
               called |-> TRUE, raised |-> FALSE ]
    ELSE [ generation |-> << >>, documents |-> documents,
           called |-> TRUE, raised |-> TRUE ]

\* a _generate_node that sends the prompt to the chat model before it looks
\* at the documents
GenerateNodeCallsFirst(question, documents, store, o) ==
    IF documents = << >>
    THEN [ generation |-> NoDocsMessage(question, store), documents |-> documents,
           called |-> TRUE, raised |-> FALSE ]
    ELSE IF o.kind = "ok"
    THEN LET parsed == Reconcile(o.text, documents)
         IN  [ generation |-> parsed.generation, documents |-> parsed.documents,
               called |-> TRUE, raised |-> FALSE ]
    ELSE [ generation |-> ErrorAnswer(o.text), documents |-> documents,
           called |-> TRUE, raised |-> FALSE ]

\* _generate_node: the partial state it returns when the chat model, if it is
\* called, ends with outcome o; raised says that an exception leaves the node
GenerateNode(question, documents, store, o) ==
    IF documents = << >>
    THEN [ generation |-> NoDocsMessage(question, store), documents |-> documents,
           called |-> FALSE, raised |-> FALSE ]
    ELSE IF o.kind = "ok"
    THEN LET parsed == Reconcile(o.text, documents)
         IN  [ generation |-> parsed.generation, documents |-> parsed.documents,
               called |-> TRUE, raised |-> FALSE ]
    ELSE [ generation |-> ErrorAnswer(o.text), documents |-> documents,
           called |-> TRUE, raised |-> FALSE ]

\* _retrieve_node: the documents it may return, whether it queried the index,
\* and what retriever.invoke gave it (hits)
RetrieveNode(question, store) ==
    IF ChitChat(question)
    THEN { [ documents |-> << >>, queried |-> FALSE, hits |-> << >> ] }
    ELSE IF ~store.created
    THEN { [ documents |-> << >>, queried |-> FALSE, hits |-> << >> ] }
    ELSE { [ documents |-> r, queried |-> TRUE, hits |-> r ] : r \in Retrievals(store.docs) }

\* a result that drops the citations
AskResultNoCitations(st) ==
    [ answer |-> st.generation, citations |-> << >> ]

\* the dict ask builds from the final state
AskResult(st) ==
    [ answer |-> st.generation, citations |-> Citations(st.documents) ]

\* an ingest that rebuilds the index from the batch alone
IngestSyncReplaces(store, files) ==
    IF \E i \in 1..Len(files) : ProcessRaises(files[i])
    THEN [ store |-> store, ret |-> [ status |-> "raised", count |-> 0 ] ]
    ELSE LET all_chunks == AllChunks(files)
         IN  IF all_chunks = << >>
             THEN [ store |-> store, ret |-> [ status |-> "returned", count |-> 0 ] ]
             ELSE [ store |-> [ created |-> TRUE, docs |-> all_chunks ],
                    ret   |-> [ status |-> "returned", count |-> Len(all_chunks) ] ]

\* an ingest that commits each file as soon as it is chunked
IngestSyncPerFile(store, files) ==
    LET failing == { i \in 1..Len(files) : ProcessRaises(files[i]) }
        done == IF failing = { } THEN files ELSE SubSeq(files, 1, Min(failing) - 1)
        chunks == AllChunks(done)
    IN  [ store |-> IF chunks = << >> THEN store
                    ELSE [ created |-> TRUE, docs |-> store.docs \o chunks ],
          ret   |-> IF failing = { }
                    THEN [ status |-> "returned", count |-> Len(chunks) ]
                    ELSE [ status |-> "raised", count |-> 0 ] ]

\* an ingest that builds an index even from an empty chunk list
IngestSyncCreatesEmpty(store, files) ==
    IF \E i \in 1..Len(files) : ProcessRaises(files[i])
    THEN [ store |-> store, ret |-> [ status |-> "raised", count |-> 0 ] ]
    ELSE LET all_chunks == AllChunks(files)
         IN  [ store |-> [ created |-> TRUE, docs |-> store.docs \o all_chunks ],
               ret   |-> [ status |-> "returned", count |-> Len(all_chunks) ] ]

\* _ingest_sync: the store after the batch, and what the call gives its caller
IngestSync(store, files) ==
    IF \E i \in 1..Len(files) : ProcessRaises(files[i])
    THEN [ store |-> store, ret |-> [ status |-> "raised", count |-> 0 ] ]
    ELSE LET all_chunks == AllChunks(files)
         IN  IF all_chunks = << >>
             THEN [ store |-> store, ret |-> [ status |-> "returned", count |-> 0 ] ]
             ELSE [ store |-> [ created |-> TRUE, docs |-> store.docs \o all_chunks ],
                    ret   |-> [ status |-> "returned", count |-> Len(all_chunks) ] ]

----------------------------------------------------------------------------
\* The state machine

\* inputs = {"question": query, "documents": [], "generation": "", "is_safe": True}
Inputs(query) ==
    [ question |-> query, documents |-> << >>, generation |-> << >>, is_safe |-> TRUE ]

NoResult == [ answer |-> << >>, citations |-> << >> ]

\* threads of the default executor that loop.run_in_executor may use at once
Workers == { "t1", "t2" }

\* a thread that is not inside _ingest_sync
IdleWorker ==
    [ pc |-> "idle", all_chunks |-> << >>, branch |-> "none", cancelled |-> FALSE ]

\* values of the X-Session-ID header, identities of RAGEngine objects, and
\* the requests the server may have in flight at once
SessionIds == { "X", "Y" }

EngineIds == { "e1", "e2", "e3" }

Requests == { "r1", "r2" }

\* no entry, no object, no request
Absent == "none"

\* self.vector_store = None
NoIndex == [ created |-> FALSE, docs |-> << >> ]

\* an identity no RAGEngine() call has produced yet
Unborn == [ born |-> FALSE, owner |-> Absent, evicted |-> FALSE, vector_store |-> NoIndex ]

\* a RAGEngine whose vector store is a class attribute shared by all objects:
\* a new engine starts with the chunks of file a.pdf
NewEngineSharedStore(s) ==
    [ born |-> TRUE, owner |-> s, evicted |-> FALSE,
      vector_store |-> [ created |-> TRUE,
                         docs |-> << [ page_content |-> T_alpha, source |-> F_a ] >> ] ]

\* _RAGEngine(): owner and evicted are history, the session id the object
\* was created for and whether clear_session has removed its entry
NewEngine(s) == [ born |-> TRUE, owner |-> s, evicted |-> FALSE, vector_store |-> NoIndex ]

\* an engine that was removed from the registry and that no request holds:
\* nothing can reach the object any more
Collected == [ born |-> TRUE, owner |-> Absent, evicted |-> TRUE, vector_store |-> NoIndex ]

\* a request slot with no request in it
IdleRequest ==
    [ pc |-> "idle", kind |-> Absent, session |-> Absent, missing |-> FALSE, engine |-> Absent ]

\* no second ask is running
IdleAsk == [ pc |-> "idle", state |-> Inputs(<< >>), result |-> NoResult, llm |-> NoLlm ]

NoChat == [ session |-> Absent, question |-> << >>, result |-> NoResult ]

\* session_manager = None, and the object lifespan assigns to it
None == "None"

SessionManagerObject == "SessionManager"

\* no /health answer and no rejection has just left
NoResponse == [ endpoint |-> Absent, status_code |-> 0, status |-> Absent ]

Init ==
    /\ vector_store = [ created |-> FALSE, docs |-> << >> ]
    /\ ingest_result = [ status |-> "none", count |-> 0 ]
    /\ pc = "idle"
    /\ state = Inputs(<< >>)
    /\ result = NoResult
    /\ retrieved = << >>
    /\ llm = NoLlm
    /\ llm_calls = 0
    /\ index_queries = 0
    /\ trace = << >>
    /\ other = IdleAsk
    /\ workers = [ w \in Workers |-> IdleWorker ]
    /\ ingested_total = 0
    /\ sessions = [ s \in SessionIds |-> Absent ]
    /\ engines = [ e \in EngineIds |-> Unborn ]
    /\ reqs = [ r \in Requests |-> IdleRequest ]
    /\ running = Absent
    /\ chat_result = NoChat
    /\ clear_raised = FALSE
    /\ lifespan = "not_started"
    /\ session_manager = None
    /\ http_response = NoResponse

\* RAGEngine.ingest_files(files): runs in the executor, so it may complete
\* between any two nodes of a running ask
Ingest(files) ==
    /\ LET out == IngestSync(vector_store, files)
       IN  /\ Len(out.store.docs) <= MaxStore
           /\ vector_store' = out.store
           /\ ingest_result' = out.ret
    /\ UNCHANGED << ask_vars, thread_vars, registry_vars >>

\* RAGEngine.ask(query): the graph is entered at "retrieve"
AskStart(query) ==
    /\ pc \in { "idle", "END", "raised" }
    /\ pc' = "retrieve"
    /\ state' = Inputs(query)
    /\ result' = NoResult
    /\ retrieved' = << >>
    /\ llm' = NoLlm
    /\ llm_calls' = 0
    /\ index_queries' = 0
    /\ trace' = << >>
    /\ UNCHANGED << vector_store, ingest_result, other, thread_vars, registry_vars >>

\* node "retrieve", then the edge retrieve -> governance
Retrieve ==
    /\ pc = "retrieve"
    /\ \E out \in RetrieveNode(state.question, vector_store) :
          /\ state' = [ state EXCEPT !.documents = out.documents ]
          /\ retrieved' = out.hits
          /\ index_queries' = index_queries + (IF out.queried THEN 1 ELSE 0)
    /\ pc' = EdgeFrom("retrieve")
    /\ trace' = Append(trace, "retrieve")
    /\ UNCHANGED << vector_store, ingest_result, result, llm, llm_calls, other,
                    thread_vars, registry_vars >>

\* node "governance", then the conditional edge on _check_safety; on END
\* ainvoke returns the final state and ask builds its dict without suspending
Governance ==
    /\ pc = "governance"
    /\ LET out == GovernanceNode(state.documents)
       IN  state' = [ state EXCEPT
                        !.is_safe = out.is_safe,
                        !.generation = IF out.sets_generation THEN out.generation ELSE @ ]
    /\ pc' = IF CheckSafety(state') = "safe" THEN "generate" ELSE "END"
    /\ result' = IF pc' = "END" THEN AskResult(state') ELSE result
    /\ trace' = Append(trace, "governance")
    /\ UNCHANGED << vector_store, ingest_result, retrieved, llm, llm_calls,
                    index_queries, other, thread_vars, registry_vars >>

\* node "generate", then the edge generate -> END and the return of ask
Generate ==
    /\ pc = "generate"
    /\ \E o \in (IF state.documents = << >> THEN { NoLlm } ELSE LlmOutcomes) :
          LET out == GenerateNode(state.question, state.documents, vector_store, o)
          IN  /\ state' = [ state EXCEPT !.generation = out.generation,
                                         !.documents = out.documents ]
              /\ llm' = o
              /\ llm_calls' = llm_calls + (IF out.called THEN 1 ELSE 0)
              /\ pc' = IF out.raised THEN "raised" ELSE EdgeFrom("generate")
    /\ result' = IF pc' = "END" THEN AskResult(state') ELSE result
    /\ trace' = Append(trace, "generate")
    /\ UNCHANGED << vector_store, ingest_result, retrieved, index_queries, other,
                    thread_vars, registry_vars >>

Next ==
    \/ \E files \in Batches : Ingest(files)
    \/ \E query \in Questions : AskStart(query)
    \/ Retrieve
    \/ Governance
    \/ Generate

Spec == Init /\ [][Next]_vars

\* ---- the citations ask builds, on chunks longer than a snippet ----

\* a chunk text of n characters with a newline in every seventh place
Content(n) ==
    [ i \in 1..n |-> IF i % 7 = 3 THEN "\n" ELSE IF i % 2 = 0 THEN "a" ELSE "b" ]

\* lengths of chunk texts: empty, short, around the snippet length, and longer
ContentLengths ==
    { 0, 3, SNIPPET_LEN - 1, SNIPPET_LEN, SNIPPET_LEN + 1, MaxContent - 1, MaxContent }
        \cup (145..155)

\* the chunks a final state may hold
CitationDocs ==
    { [ page_content |-> Content(n), source |-> f ] :
        n \in ContentLengths, f \in { F_a, F_data } }

\* the final states of the graph: up to two documents and a generation
FinalStates ==
    { [ question |-> Q_what, is_safe |-> TRUE, generation |-> R_plain, documents |-> ds ] :
        ds \in { << >> } \cup { << d >> : d \in CitationDocs }
                 \cup { << d, e >> : d \in CitationDocs,
                                     e \in { c \in CitationDocs : Len(c.page_content) > SNIPPET_LEN } } }

\* ainvoke has returned a final state and ask is about to build its dict
InitCitations ==
    /\ vector_store = [ created |-> TRUE, docs |-> << >> ]
    /\ ingest_result = [ status |-> "none", count |-> 0 ]
    /\ pc = "final"
    /\ state \in FinalStates
    /\ result = NoResult
    /\ retrieved = state.documents
    /\ llm = [ kind |-> "ok", text |-> R_plain ]
    /\ llm_calls = 1
    /\ index_queries = 1
    /\ trace = << "retrieve", "governance", "generate" >>
    /\ other = IdleAsk
    /\ workers = [ w \in Workers |-> IdleWorker ]
    /\ ingested_total = 0
    /\ sessions = [ s \in SessionIds |-> Absent ]
    /\ engines = [ e \in EngineIds |-> Unborn ]
    /\ reqs = [ r \in Requests |-> IdleRequest ]
    /\ running = Absent
    /\ chat_result = NoChat
    /\ clear_raised = FALSE
    /\ lifespan = "not_started"
    /\ session_manager = None
    /\ http_response = NoResponse

\* ask: the dict built from the final state
BuildResult ==
    /\ pc = "final"
    /\ result' = AskResult(state)
    /\ pc' = "END"
    /\ UNCHANGED << vector_store, ingest_result, state, retrieved, llm, llm_calls,
                    index_queries, trace, other, thread_vars, registry_vars >>

NextCitations == BuildResult

SpecCitations == InitCitations /\ [][NextCitations]_vars

\* ---- asks whose index query may fail ----

\* retriever.invoke raises: _retrieve_node has no handler, nor has ask, so
\* the exception leaves app.ainvoke and ask, and no dict is returned
RetrieveFails ==
    /\ pc = "retrieve"
    /\ ~ChitChat(state.question)
    /\ vector_store.created
    /\ index_queries' = index_queries + 1
    /\ pc' = "raised"
    /\ trace' = Append(trace, "retrieve")
    /\ UNCHANGED << vector_store, ingest_result, state, result, retrieved, llm, llm_calls,
                    other, thread_vars, registry_vars >>

FailureBatches == { << 1 >>, << 3 >>, << 6 >> }

NextFailure ==
    \/ \E files \in FailureBatches : Ingest(files)
    \/ \E query \in Questions : AskStart(query)
    \/ Retrieve
    \/ RetrieveFails
    \/ Governance
    \/ Generate

SpecFailure == Init /\ [][NextFailure]_vars

\* ---- two asks at once on one engine, ingests only between them ----

AsksBatches == { << 1 >>, << 3 >> }

AsksQuestions == { Q_hi, Q_what }

AsksOutcomes ==
    { [ kind |-> "ok", text |-> R_a ], [ kind |-> "ok", text |-> R_plain ],
      [ kind |-> "raise", text |-> E_quota ] }

\* a pipeline state kept on the engine, so that every ask works on the same one
GraphStateShared(own, shared) == shared

\* ask builds its inputs dict anew and the graph keeps the state of one
\* invocation apart from any other's
GraphStateOwn(own, shared) == own

\* the second ask enters the graph
OtherStart(query) ==
    /\ other.pc \in { "idle", "END" }
    /\ other' = [ pc |-> "retrieve", state |-> Inputs(query), result |-> NoResult,
                  llm |-> NoLlm ]
    /\ UNCHANGED << vector_store, ingest_result, pc, state, result, retrieved, llm,
                    llm_calls, index_queries, trace, thread_vars, registry_vars >>

\* the second ask runs the node it stands at
OtherStep ==
    /\ other.pc \in { "retrieve", "governance", "generate" }
    /\ LET st == GraphStateOwn(other.state, state)
       IN  \/ /\ other.pc = "retrieve"
              /\ \E out \in RetrieveNode(st.question, vector_store) :
                    other' = [ other EXCEPT
                                 !.pc = EdgeFrom("retrieve"),
                                 !.state = [ st EXCEPT !.documents = out.documents ] ]
           \/ /\ other.pc = "governance"
              /\ LET out == GovernanceNode(st.documents)
                     st2 == [ st EXCEPT
                                !.is_safe = out.is_safe,
                                !.generation = IF out.sets_generation
                                               THEN out.generation ELSE @ ]
                 IN  other' = [ other EXCEPT
                                  !.pc = IF CheckSafety(st2) = "safe" THEN "generate" ELSE "END",
                                  !.state = st2,
                                  !.result = IF CheckSafety(st2) = "safe"
                                             THEN other.result ELSE AskResult(st2) ]
           \/ /\ other.pc = "generate"
              /\ \E o \in (IF st.documents = << >> THEN { NoLlm } ELSE AsksOutcomes) :
                    LET out == GenerateNode(st.question, st.documents, vector_store, o)
                        st2 == [ st EXCEPT !.generation = out.generation,
                                           !.documents = out.documents ]
                    IN  other' = [ pc |-> EdgeFrom("generate"), state |-> st2,
                                   result |-> AskResult(st2), llm |-> o ]
    /\ UNCHANGED << vector_store, ingest_result, pc, state, result, retrieved, llm,
                    llm_calls, index_queries, trace, thread_vars, registry_vars >>

\* no ask is inside the graph
NoAskRunning == pc \in { "idle", "END", "raised" } /\ other.pc \in { "idle", "END" }

NextAsks ==
    \/ \E files \in AsksBatches :
          /\ NoAskRunning
          /\ Len(vector_store.docs) + Len(AllChunks(files)) <= MaxAsksStore
          /\ Ingest(files)
    \/ \E query \in AsksQuestions : AskStart(query)
    \/ Retrieve
    \/ Governance
    \/ Generate
    \/ \E query \in AsksQuestions : OtherStart(query)
    \/ OtherStep

SpecAsks == Init /\ [][NextAsks]_vars

\* the batches uploaded while asks run: a one-chunk file, a file with a
\* marked chunk, a file of an unsupported type
FairBatches == { << 1 >>, << 3 >>, << 6 >> }

NextFair ==
    \/ \E files \in FairBatches : Ingest(files)
    \/ \E query \in Questions : AskStart(query)
    \/ Retrieve
    \/ Governance
    \/ Generate

\* the event loop resumes a graph whose node has returned: the index query
\* and the chat model call come back, so no node is left pending forever
SpecFair ==
    /\ Init
    /\ [][NextFair]_vars
    /\ WF_vars(Retrieve)
    /\ WF_vars(Governance)
    /\ WF_vars(Generate)

----------------------------------------------------------------------------
\* Overlapping ingest_files calls on one engine.  Each call runs _ingest_sync
\* in a thread of the default executor, and RAGEngine takes no lock, so the
\* threads interleave between the statements of _ingest_sync.

\* chunks held by threads that have not committed yet
RECURSIVE PendingChunks(_)
PendingChunks(ws) ==
    IF ws = { } THEN 0
    ELSE LET w == CHOOSE x \in ws : TRUE
         IN  Len(workers[w].all_chunks) + PendingChunks(ws \ { w })

\* _ingest_sync up to the test of self.vector_store: the loop over the batch,
\* and the early return when it produced no chunks
IngestBegin(w, files) ==
    /\ workers[w].pc = "idle"
    /\ IF \E i \in 1..Len(files) : ProcessRaises(files[i])
       THEN /\ ingest_result' = [ status |-> "raised", count |-> 0 ]
            /\ UNCHANGED workers
       ELSE LET all_chunks == AllChunks(files)
            IN  IF all_chunks = << >>
                THEN /\ ingest_result' = [ status |-> "returned", count |-> 0 ]
                     /\ UNCHANGED workers
                ELSE /\ ingested_total + PendingChunks(Workers) + Len(all_chunks) <= MaxStore
                     /\ workers' = [ workers EXCEPT ![w] =
                            [ pc |-> "chunked", all_chunks |-> all_chunks, branch |-> "none",
                              cancelled |-> FALSE ] ]
                     /\ UNCHANGED ingest_result
    /\ UNCHANGED << vector_store, ingested_total, ask_vars, registry_vars >>

\* `if self.vector_store:` picks the branch
IngestTest(w) ==
    /\ workers[w].pc = "chunked"
    /\ workers' = [ workers EXCEPT ![w].pc = "checked",
                                   ![w].branch = IF vector_store.created THEN "add" ELSE "create" ]
    /\ UNCHANGED << vector_store, ingest_result, ingested_total, ask_vars, registry_vars >>

\* a worker that is torn down with its cancelled caller: the chunk it was
\* adding at that moment is lost
CommittedChunksUntilCancel(all_chunks, cancelled) ==
    IF cancelled THEN SubSeq(all_chunks, 1, Len(all_chunks) - 1) ELSE all_chunks

\* the chunks the one add_documents / from_documents call of the worker puts
\* into the index: the pool thread is not interrupted when the coroutine that
\* awaits it is cancelled
CommittedChunks(all_chunks, cancelled) == all_chunks

\* the branch taken: add_documents on the store, or FAISS.from_documents and
\* the assignment to self.vector_store; then return len(all_chunks), which a
\* cancelled caller no longer receives
IngestCommit(w) ==
    /\ workers[w].pc = "checked"
    /\ LET chunks == CommittedChunks(workers[w].all_chunks, workers[w].cancelled)
       IN  vector_store' =
              IF workers[w].branch = "add"
              THEN [ created |-> TRUE, docs |-> vector_store.docs \o chunks ]
              ELSE [ created |-> TRUE, docs |-> chunks ]
    /\ ingest_result' =
          IF workers[w].cancelled
          THEN [ status |-> "cancelled", count |-> 0 ]
          ELSE [ status |-> "returned", count |-> Len(workers[w].all_chunks) ]
    /\ ingested_total' = ingested_total + Len(workers[w].all_chunks)
    /\ workers' = [ workers EXCEPT ![w] = IdleWorker ]
    /\ UNCHANGED << ask_vars, registry_vars >>

\* the request that awaits ingest_files is cancelled while its worker runs:
\* the coroutine is gone, the pool thread goes on
Cancel(w) ==
    /\ workers[w].pc \in { "chunked", "checked" }
    /\ ~workers[w].cancelled
    /\ workers' = [ workers EXCEPT ![w].cancelled = TRUE ]
    /\ UNCHANGED << vector_store, ingest_result, ingested_total, ask_vars, registry_vars >>

NextThreads ==
    \/ \E w \in Workers, files \in Batches : IngestBegin(w, files)
    \/ \E w \in Workers : IngestTest(w)
    \/ \E w \in Workers : IngestCommit(w)

SpecThreads == Init /\ [][NextThreads]_vars

\* ---- ingests whose requests may be cancelled ----

NextCancel ==
    \/ \E w \in Workers, files \in Batches : IngestBegin(w, files)
    \/ \E w \in Workers : IngestTest(w)
    \/ \E w \in Workers : IngestCommit(w)
    \/ \E w \in Workers : Cancel(w)

SpecCancel == Init /\ [][NextCancel]_vars

\* ---- requests handled on the event loop while ingests run in the pool ----

\* an ingest_files that calls _ingest_sync on the event loop: the loop is
\* free only when no ingest is running
EventLoopHeldByIngest == \A w \in Workers : workers[w].pc = "idle"

\* ingest_files awaits loop.run_in_executor: the worker runs in a pool thread
\* and the event loop stays free for other coroutines
EventLoopFree == TRUE

\* the batches and questions of the requests that overlap
OffloadBatches == { << 1 >>, << 3 >>, << 5 >>, << 6 >> }

OffloadQuestions == { Q_hi, Q_what }

\* a request handler step needs the event loop; the steps of _ingest_sync
\* after its start run in the worker's thread
NextOffload ==
    \/ \E w \in Workers, files \in OffloadBatches : EventLoopFree /\ IngestBegin(w, files)
    \/ \E w \in Workers : IngestTest(w)
    \/ \E w \in Workers : IngestCommit(w)
    \/ \E query \in OffloadQuestions : EventLoopFree /\ AskStart(query)
    \/ EventLoopFree /\ Retrieve
    \/ EventLoopFree /\ Governance
    \/ EventLoopFree /\ Generate

SpecOffload == Init /\ [][NextOffload]_vars

----------------------------------------------------------------------------
\* SessionManager and the two endpoints that reach it through the dependency
\* get_rag_engine.  Coroutines run on one event loop and give it up only at
\* an await; an ask is taken here as one step on the engine the request holds
\* (Spec follows it node by node).

\* files, questions and chat model outcomes of the requests
RegistryBatches == { << 1 >>, << 2 >>, << 6 >> }

RegistryQuestions == { Q_hi, Q_what }

RegistryOutcomes == { [ kind |-> "ok", text |-> R_plain ] }

\* a dependency declared with `def` would run in the thread pool
DependencyInThreadPool == TRUE

\* get_rag_engine is `async def` and awaits nothing: it runs on the event
\* loop and no other coroutine runs before it returns
DependencyOffLoop == FALSE

\* a test that never finds the session
MissingAlways(sess, s) == TRUE

\* session_id not in self._sessions
Missing(sess, s) == sess[s] = Absent

\* a lookup that returns whichever engine the registry holds first
LookupAny(sess, s) ==
    sess[CHOOSE t \in SessionIds : sess[t] # Absent]

\* return self._sessions[session_id]
Lookup(sess, s) == sess[s]

\* a clear_session that deletes the key without testing for it
ClearSessionDel(sess, s) ==
    [ sessions |-> [ sess EXCEPT ![s] = Absent ], raised |-> sess[s] = Absent ]

\* clear_session: the registry after the call, and whether it raised
ClearSessionOp(sess, s) ==
    IF sess[s] # Absent
    THEN [ sessions |-> [ sess EXCEPT ![s] = Absent ], raised |-> FALSE ]
    ELSE [ sessions |-> sess, raised |-> FALSE ]

\* the identities RAGEngine() can still produce
UnbornIds == { e \in EngineIds : ~engines[e].born }

\* the engines once the unreachable ones are freed
Collect(engs, rq) ==
    [ e \in EngineIds |->
        IF engs[e].evicted /\ \A r \in Requests : rq[r].engine # e
        THEN Collected ELSE engs[e] ]

\* chunks held by the engines es together
RECURSIVE StoredChunks(_, _)
StoredChunks(engs, es) ==
    IF es = { } THEN 0
    ELSE LET e == CHOOSE x \in es : TRUE
         IN  Len(engs[e].vector_store.docs) + StoredChunks(engs, es \ { e })

\* ask on an engine whose index is store, with a chat model whose outcome is
\* one of outcomes: every dict it may return
AskOutcomesFor(query, store, outcomes) ==
    UNION { LET gov == GovernanceNode(r.documents)
                st == [ Inputs(query) EXCEPT
                          !.documents = r.documents,
                          !.is_safe = gov.is_safe,
                          !.generation = IF gov.sets_generation THEN gov.generation ELSE @ ]
            IN  IF CheckSafety(st) = "unsafe"
                THEN { AskResult(st) }
                ELSE { LET out == GenerateNode(query, st.documents, store, o)
                       IN  AskResult([ st EXCEPT !.generation = out.generation,
                                                 !.documents = out.documents ])
                       : o \in (IF st.documents = << >> THEN { NoLlm }
                                ELSE outcomes) }
          : r \in RetrieveNode(query, store) }

\* ask on an engine whose index is store: every dict it may return
AskOutcomes(query, store) == AskOutcomesFor(query, store, RegistryOutcomes)

\* a dependency that never refuses a request
ServiceUnavailableNever(sm) == FALSE

\* get_rag_engine: `if not session_manager`
ServiceUnavailable(sm) == sm = None

\* health_check: the status it reports
HealthStatus(sm) == IF sm # None THEN "ok" ELSE "initializing"

\* lifespan up to its yield: the manager is constructed with an empty registry
Startup ==
    /\ lifespan # "yielded"
    /\ running = Absent
    /\ lifespan' = "yielded"
    /\ session_manager' = SessionManagerObject
    /\ sessions' = [ s \in SessionIds |-> Absent ]
    /\ http_response' = NoResponse
    /\ chat_result' = NoChat
    /\ UNCHANGED << engines, reqs, running, clear_raised, engine_vars >>

\* lifespan after its yield, once the server has drained its requests: the
\* global is reset and nothing refers to the manager's engines any more
Shutdown ==
    /\ lifespan = "yielded"
    /\ running = Absent
    /\ \A r \in Requests : reqs[r].pc = "idle"
    /\ lifespan' = "exited"
    /\ session_manager' = None
    /\ sessions' = [ s \in SessionIds |-> Absent ]
    /\ engines' = Collect([ e \in EngineIds |->
                              IF \E s \in SessionIds : sessions[s] = e
                              THEN [ engines[e] EXCEPT !.evicted = TRUE ]
                              ELSE engines[e] ], reqs)
    /\ http_response' = NoResponse
    /\ chat_result' = NoChat
    /\ UNCHANGED << reqs, running, clear_raised, engine_vars >>

\* GET /health
HealthCheck ==
    /\ running = Absent
    /\ http_response' = [ endpoint |-> "health", status_code |-> 200,
                          status |-> HealthStatus(session_manager) ]
    /\ chat_result' = NoChat
    /\ UNCHANGED << sessions, engines, reqs, running, clear_raised,
                    lifespan, session_manager, engine_vars >>

\* a request arrives: get_rag_engine refuses it with 503 while there is no
\* manager, and otherwise calls get_engine, which tests the key
GetEngineTest(r, s, kind) ==
    /\ running = Absent
    /\ reqs[r].pc = "idle"
    /\ IF ServiceUnavailable(session_manager)
       THEN /\ http_response' = [ endpoint |-> kind, status_code |-> 503,
                                  status |-> "System is not initialized" ]
            /\ UNCHANGED << reqs, running >>
       ELSE /\ Missing(sessions, s) => UnbornIds # { }
            /\ reqs' = [ reqs EXCEPT ![r] =
                           [ pc |-> "tested", kind |-> kind, session |-> s,
                             missing |-> Missing(sessions, s), engine |-> Absent ] ]
            /\ running' = IF DependencyOffLoop THEN Absent ELSE r
            /\ http_response' = NoResponse
    /\ chat_result' = NoChat
    /\ UNCHANGED << sessions, engines, clear_raised, lifespan, session_manager, engine_vars >>

\* get_engine stores a new engine when the key was missing, returns the entry,
\* and the endpoint starts with the engine it was given
GetEngineReturn(r) ==
    /\ reqs[r].pc = "tested"
    /\ running \in { Absent, r }
    /\ LET s == reqs[r].session
       IN  /\ IF reqs[r].missing
              THEN /\ UnbornIds # { }
                   /\ LET e == CHOOSE x \in UnbornIds : TRUE
                      IN  /\ sessions' = [ sessions EXCEPT ![s] = e ]
                          /\ engines' = [ engines EXCEPT ![e] = NewEngine(s) ]
              ELSE UNCHANGED << sessions, engines >>
           /\ reqs' = [ reqs EXCEPT ![r].pc = "holding",
                                    ![r].engine = Lookup(sessions', s) ]
    /\ running' = Absent
    /\ chat_result' = NoChat
    /\ http_response' = NoResponse
    /\ UNCHANGED << clear_raised, lifespan, session_manager, engine_vars >>

\* upload_documents: ingest_files on the engine the request holds has
\* finished, and the response leaves
UploadDocuments(r, files) ==
    /\ running = Absent
    /\ reqs[r].pc = "holding"
    /\ reqs[r].kind = "upload"
    /\ reqs[r].engine # Absent
    /\ LET e == reqs[r].engine
           out == IngestSync(engines[e].vector_store, files)
       IN  /\ reqs' = [ reqs EXCEPT ![r] = IdleRequest ]
           /\ engines' = Collect([ engines EXCEPT ![e].vector_store = out.store ], reqs')
           /\ StoredChunks(engines', EngineIds) <= MaxSessionStore
    /\ chat_result' = NoChat
    /\ http_response' = NoResponse
    /\ UNCHANGED << sessions, running, clear_raised, lifespan, session_manager, engine_vars >>

\* chat: ask on the engine the request holds has finished, and its dict is
\* the response
Chat(r, query) ==
    /\ running = Absent
    /\ reqs[r].pc = "holding"
    /\ reqs[r].kind = "chat"
    /\ reqs[r].engine # Absent
    /\ \E res \in AskOutcomes(query, engines[reqs[r].engine].vector_store) :
          chat_result' = [ session |-> reqs[r].session, question |-> query, result |-> res ]
    /\ reqs' = [ reqs EXCEPT ![r] = IdleRequest ]
    /\ engines' = Collect(engines, reqs')
    /\ http_response' = NoResponse
    /\ UNCHANGED << sessions, running, clear_raised, lifespan, session_manager, engine_vars >>

\* SessionManager.clear_session(s), on the manager the global holds
ClearSession(s) ==
    /\ running = Absent
    /\ session_manager # None
    /\ LET out == ClearSessionOp(sessions, s)
       IN  /\ sessions' = out.sessions
           /\ clear_raised' = (clear_raised \/ out.raised)
           /\ engines' = IF sessions[s] # Absent /\ out.sessions[s] = Absent
                         THEN Collect([ engines EXCEPT ![sessions[s]].evicted = TRUE ], reqs)
                         ELSE engines
    /\ chat_result' = NoChat
    /\ http_response' = NoResponse
    /\ UNCHANGED << reqs, running, lifespan, session_manager, engine_vars >>

NextRegistry ==
    \/ Startup
    \/ \E r \in Requests, s \in SessionIds, kind \in { "upload", "chat" } :
          GetEngineTest(r, s, kind)
    \/ \E r \in Requests : GetEngineReturn(r)
    \/ \E r \in Requests, files \in RegistryBatches : UploadDocuments(r, files)
    \/ \E r \in Requests, query \in RegistryQuestions : Chat(r, query)
    \/ \E s \in SessionIds : ClearSession(s)

SpecRegistry == Init /\ [][NextRegistry]_vars

\* ---- the application from import to shutdown, with its health probe ----

LifespanBatches == { << 1 >> }

LifespanQuestions == { Q_hi }

NextLifespan ==
    \/ Startup
    \/ Shutdown
    \/ HealthCheck
    \/ \E r \in Requests, s \in SessionIds, kind \in { "upload", "chat" } :
          GetEngineTest(r, s, kind)
    \/ \E r \in Requests : GetEngineReturn(r)
    \/ \E r \in Requests, files \in LifespanBatches : UploadDocuments(r, files)
    \/ \E r \in Requests, query \in LifespanQuestions : Chat(r, query)

SpecLifespan == Init /\ [][NextLifespan]_vars

----------------------------------------------------------------------------
\* Properties

\* the ask has left node "retrieve", so retrieved is what Retrieval returned
Retrieved == pc \in { "governance", "generate", "END", "raised" }

\* c is the letter m of a marker, in either case
SameLetter(c, m) == c = m \/ (m \in DOMAIN TO_LOWER /\ c = TO_LOWER[m])

\* text holds the marker at some position, each letter in any case
HoldsAnyCase(text, marker) ==
    \E i \in 0..(Len(text) - Len(marker)) :
        \A k \in 1..Len(marker) : SameLetter(text[i + k], marker[k])

\* some chunk of docs carries a governance marker in some letter case
Marked(docs) ==
    \E i \in 1..Len(docs) :
        \/ HoldsAnyCase(docs[i].page_content, CONFIDENTIAL)
        \/ HoldsAnyCase(docs[i].page_content, DO_NOT_SHARE)

\* C1: when a chunk Retrieval returned holds CONFIDENTIAL or DO NOT SHARE in
\* any letter case, the chat model is never invoked in that ask, Generation is
\* not entered, and ask returns exactly the fixed refusal message.
C1_GovernanceShortCircuit ==
    (Retrieved /\ Marked(retrieved)) =>
        /\ llm_calls = 0
        /\ pc \in { "governance", "END" }
        /\ pc = "END" => result.answer = REFUSAL

\* C1 witness: an ask that retrieved a chunk marked in mixed case has returned
\* the refusal without a chat model call.
C1_Witness ==
    /\ pc = "END"
    /\ \E i \in 1..Len(retrieved) : retrieved[i].page_content = T_dns
    /\ ~(\E i \in 1..Len(retrieved) : retrieved[i].page_content = T_secret)
    /\ result.answer = REFUSAL
    /\ llm_calls = 0

\* C2: when Governance blocked the request, the result of ask has an empty
\* citations list.
C2_BlockedHasNoCitations ==
    (pc = "END" /\ ~state.is_safe) => result.citations = << >>

\* C3: the nodes of one ask run in the order retrieve, governance, then
\* generate exactly when Governance emitted safe, each at most once; on unsafe
\* the graph ends right after governance, and nothing runs after END.
C3_StageOrder ==
    /\ pc \in { "idle", "retrieve" } => trace = << >>
    /\ pc = "governance" => trace = << "retrieve" >>
    /\ pc = "generate" => trace = << "retrieve", "governance" >> /\ state.is_safe
    /\ pc = "END" =>
          trace = IF state.is_safe THEN << "retrieve", "governance", "generate" >>
                                   ELSE << "retrieve", "governance" >>
    /\ pc # "raised"

\* C3 witness: an ask ended on the unsafe branch after retrieve and governance.
C3_Witness ==
    pc = "END" /\ ~state.is_safe /\ trace = << "retrieve", "governance" >>

\* C4: when the chat model call fails, ask returns normally (no exception
\* leaves it) and the answer contains the error's description.
C4_ChatModelFailureRecovered ==
    llm.kind = "raise" =>
        /\ pc = "END"
        /\ Contains(result.answer, llm.text)
        /\ result.answer # llm.text

\* C4 witness: the chat model raised and ask returned an answer.
C4_Witness ==
    llm.kind = "raise" /\ llm.text = E_quota /\ pc = "END" /\ llm_calls = 1

\* the chat model returned text holding a SOURCES: [...] marker
HasMarker == llm.kind = "ok" /\ SourcesMatch(llm.text).found

\* the comma-separated, trimmed names between the marker's brackets
ListedNames == UsedFilenames(SourcesMatch(llm.text).group1)

\* the chunk's source filename contains one of the listed names, ignoring case
Listed(doc) ==
    \E n \in Range(ListedNames) : Contains(Lower(doc.source), Lower(n))

\* C5: when the raw output holds a marker and some retrieved chunk's source
\* contains a listed name (ignoring case), the final documents and the
\* citations are exactly the retrieved chunks whose source does, in retrieved
\* order.
C5_SourceReconciliation ==
    (pc = "END" /\ HasMarker) =>
        LET listed == SelectSeq(retrieved, Listed)
        IN  listed # << >> =>
                /\ state.documents = listed
                /\ result.citations = Citations(listed)

\* C5 witness: the model listed DATA.pdf, chunks of a.pdf and Data.PDF were
\* retrieved, and only the Data.PDF chunk is cited.
C5_Witness ==
    /\ pc = "END"
    /\ llm = [ kind |-> "ok", text |-> R_data ]
    /\ \E i \in 1..Len(retrieved) : retrieved[i].source = F_a
    /\ Len(result.citations) = 1
    /\ result.citations[1].source = F_data

\* C6: when the raw output holds a marker but no retrieved chunk's source
\* matches a listed name, the citations are the whole retrieved set, not empty.
C6_ReconciliationFallback ==
    (pc = "END" /\ HasMarker /\ SelectSeq(retrieved, Listed) = << >>) =>
        /\ state.documents = retrieved
        /\ result.citations = Citations(retrieved)
        /\ result.citations # << >>

\* C6 witness: the model listed zz.pdf, which no retrieved chunk comes from,
\* and both retrieved chunks are cited.
C6_Witness ==
    /\ pc = "END"
    /\ llm = [ kind |-> "ok", text |-> R_zz ]
    /\ Len(retrieved) = 2
    /\ Len(result.citations) = 2

\* C7: when the raw output holds a marker, the answer ask returns holds no
\* SOURCES: [...] marker in any letter case.
C7_MarkerStripped ==
    (pc = "END" /\ HasMarker) => ~SourcesMatch(result.answer).found

\* C8: when the raw output holds no marker, the answer is the raw text
\* unchanged and the citations are those of the whole retrieved set, in
\* retrieved order.
C8_NoMarkerFrame ==
    (pc = "END" /\ llm.kind = "ok" /\ ~SourcesMatch(llm.text).found) =>
        /\ result.answer = llm.text
        /\ state.documents = retrieved
        /\ result.citations = Citations(retrieved)

\* C8 witness: a raw text with surrounding blanks and an unclosed SOURCES:
\* was returned as it is, with both retrieved chunks cited.
C8_Witness ==
    /\ pc = "END"
    /\ llm = [ kind |-> "ok", text |-> R_padded ]
    /\ result.answer = R_padded
    /\ Len(result.citations) = 2

\* the greeting vocabulary of the Retrieval stage
GreetingVocabulary == { W_hi, W_hello, W_hey, W_hola, W_greetings, W_thanks }

\* the question is a greeting after lower-casing and trimming every
\* whitespace character and the punctuation ! . , ?
GreetingTrimmingWhitespace(question) ==
    StripChars(Lower(question), { " ", "\t", "\n", "\r", "!", ".", ",", "?" })
        \in GreetingVocabulary

\* the question is a greeting after lower-casing and trimming the space
\* character and the punctuation ! . , ?
GreetingTrimmingSpaces(question) ==
    StripChars(Lower(question), { " ", "!", ".", ",", "?" }) \in GreetingVocabulary

\* C9 as stated: a question that is a greeting after lower-casing and trimming
\* whitespace and punctuation gets an empty retrieval and no index query.
C9_ChitChatBypassWhitespace ==
    (Retrieved /\ GreetingTrimmingWhitespace(state.question)) =>
        retrieved = << >> /\ index_queries = 0

\* C9 amended: a question that is a greeting after lower-casing and trimming
\* leading and trailing space characters and ! . , ? gets an empty retrieval
\* and no index query, whether or not an index exists.
C9_ChitChatBypass ==
    (Retrieved /\ GreetingTrimmingSpaces(state.question)) =>
        retrieved = << >> /\ index_queries = 0

\* C9 witness: a greeting in upper case passed Retrieval on an engine that
\* holds an index, and the index was not queried.
C9_Witness ==
    /\ pc = "governance"
    /\ state.question = Q_greetings
    /\ vector_store.created
    /\ retrieved = << >>
    /\ index_queries = 0

\* C10: for a question of the Retrieval greeting vocabulary on an engine whose
\* index exists, Generation gives the fixed "ready" greeting and ask returns
\* it with no citations.
C10_GreetingGetsReady ==
    [][ ( /\ pc = "generate"
          /\ pc' = "END"
          /\ vector_store.created
          /\ GreetingTrimmingSpaces(state.question) )
        => ( result'.answer = READY /\ result'.citations = << >> ) ]_vars

\* C11: while no index was ever created on the session, an ask with any
\* question, greeting or not, calls no chat model and queries no index, and it
\* returns exactly the onboarding message with no citations.
C11_NoIndexOnboarding ==
    ~vector_store.created =>
        /\ llm_calls = 0
        /\ index_queries = 0
        /\ pc # "raised"
        /\ pc = "END" => result = [ answer |-> ONBOARDING, citations |-> << >> ]

\* C11 witness: a greeting asked after a failed ingest, with no index, has
\* been answered with the onboarding message.
C11_Witness ==
    /\ pc = "END"
    /\ ~vector_store.created
    /\ ingest_result.status = "raised"
    /\ state.question = Q_hi
    /\ result.answer = ONBOARDING

\* the batch has no file that process_file rejects
BatchLoads(files) == \A i \in 1..Len(files) : Supported(FILE_EXT[files[i]])

\* C15: an ingest of a batch whose files all load returns the chunk count of
\* that batch alone, creates the index when it is the first batch with chunks,
\* and otherwise appends: every earlier chunk stays in place and the index
\* grows by exactly the returned count.
C15_IngestionAccumulates ==
    [][ \A files \in Batches :
          (BatchLoads(files) /\ pc' = pc /\ Ingest(files)) =>
              /\ ingest_result' = [ status |-> "returned", count |-> Len(AllChunks(files)) ]
              /\ vector_store'.docs = vector_store.docs \o AllChunks(files)
              /\ Len(vector_store'.docs) = Len(vector_store.docs) + ingest_result'.count
              /\ vector_store'.created = (vector_store.created \/ AllChunks(files) # << >>)
      ]_vars

\* C15 witness: a one-chunk batch was added behind a two-chunk batch, and the
\* call returned 1, not 3.
C15_Witness ==
    /\ Len(vector_store.docs) = 3
    /\ vector_store.docs[1].source = F_s
    /\ vector_store.docs[3].source = F_a
    /\ ingest_result = [ status |-> "returned", count |-> 1 ]

\* C17: an ingest of a batch holding a file of unsupported extension raises to
\* its caller and leaves the index exactly as it was, chunks of the files
\* before the failing one included.
C17_FailedBatchAborts ==
    [][ \A files \in Batches :
          ((\E i \in 1..Len(files) : FileName[files[i]] = F_x) /\ pc' = pc
              /\ Ingest(files)) =>
              /\ ingest_result'.status = "raised"
              /\ vector_store' = vector_store
      ]_vars

\* C17 witness: an ingest has raised on an engine whose index holds exactly
\* the one chunk of an earlier batch.
C17_Witness ==
    /\ ingest_result.status = "raised"
    /\ vector_store.created
    /\ Len(vector_store.docs) = 1

\* C18: an ingest whose files produce no chunks returns 0 and leaves the index
\* untouched: absent stays absent, an existing index is unchanged.
C18_EmptyBatchNoOp ==
    [][ \A files \in Batches :
          ((\A i \in 1..Len(files) : FileTexts[files[i]] = << >>) /\ pc' = pc
              /\ Ingest(files)) =>
              /\ ingest_result' = [ status |-> "returned", count |-> 0 ]
              /\ vector_store' = vector_store
      ]_vars

\* C18 witness: an ingest has returned 0 and there is still no index.
C18_Witness ==
    /\ ingest_result = [ status |-> "returned", count |-> 0 ]
    /\ ~vector_store.created
    /\ vector_store.docs = << >>

\* C20: is_safe is false only after Governance blocked, and generation is then
\* the refusal; otherwise generation stays empty until node generate has run;
\* generation is written only by Generation, which runs once, or by a blocking
\* Governance; the question never changes after ask initialised the state.
C20_PipelineState ==
    [][ /\ ~state'.is_safe =>
              /\ pc' = "END"
              /\ trace' = << "retrieve", "governance" >>
              /\ state'.generation = REFUSAL
        /\ (state'.is_safe /\ pc' \in { "idle", "retrieve", "governance", "generate" }) =>
              state'.generation = << >>
        /\ (state'.is_safe /\ pc' = "END") =>
              trace' = << "retrieve", "governance", "generate" >>
        /\ (state'.generation # state.generation /\ pc' # "retrieve") =>
              \/ pc = "generate"
              \/ pc = "governance" /\ ~state'.is_safe
        /\ pc' # "retrieve" => state'.question = state.question
      ]_vars

\* C20 witness: a blocked ask ended with is_safe false, the refusal as
\* generation and its question intact.
C20_Witness ==
    /\ pc = "END"
    /\ ~state.is_safe
    /\ state.generation = REFUSAL
    /\ state.question = Q_what
    /\ trace = << "retrieve", "governance" >>

\* C16: ingestion on one engine is mutually exclusive: at most one thread is
\* between the test of the index and its create-or-add at a time, and once
\* every overlapping ingest has returned, the index holds the chunks of every
\* batch, as many as the returned counts add up to.
C16_IngestMutualExclusion ==
    /\ Cardinality({ w \in Workers : workers[w].pc = "checked" }) <= 1
    /\ (\A w \in Workers : workers[w].pc = "idle") =>
           Len(vector_store.docs) = ingested_total

\* request r is given its engine in this step: get_engine(s) returns
GetEngineReturns(r) == reqs[r].pc = "tested" /\ reqs'[r].pc = "holding"

\* request r is answered in this step
Answered(r, kind) ==
    reqs[r].pc = "holding" /\ reqs[r].kind = kind /\ reqs'[r].pc = "idle"

\* C12: the registry maps a session id to at most one engine and get_engine
\* is idempotent: every get_engine(s) returns the engine the registry holds
\* for s, the one already there when s was present, and the entry of a present
\* s changes in no step other than clear_session(s), whatever else is ingested
\* or asked.
C12_GetEngineIdempotent ==
    [][ /\ \A r \in Requests :
              GetEngineReturns(r) =>
                  /\ reqs'[r].engine = sessions'[reqs[r].session]
                  /\ reqs'[r].engine # Absent
                  /\ sessions[reqs[r].session] # Absent =>
                         reqs'[r].engine = sessions[reqs[r].session]
        /\ \A s \in SessionIds :
              (sessions[s] # Absent /\ sessions'[s] # sessions[s]) => ClearSession(s)
      ]_vars

\* C12 witness: a request was given, for a session whose engine had already
\* ingested a chunk, that same engine again.
C12_Witness ==
    \E r \in Requests :
        /\ reqs[r].pc = "holding"
        /\ reqs[r].engine = sessions[reqs[r].session]
        /\ engines[reqs[r].engine].vector_store.created

\* engines constructed for session s whose entry clear_session never removed
LiveEngines(s) ==
    { e \in EngineIds : engines[e].born /\ engines[e].owner = s /\ ~engines[e].evicted }

\* C13: create-or-fetch is atomic under concurrent first access: of the
\* engines constructed for a session id, the only one not removed by
\* clear_session is the one the registry holds, and every request in flight
\* that was given a still registered engine for that id holds that very one.
C13_AtomicCreateOrFetch ==
    \A s \in SessionIds :
        /\ Cardinality(LiveEngines(s)) <= 1
        /\ LiveEngines(s) \subseteq { sessions[s] }
        /\ \A r \in Requests :
              (reqs[r].pc = "holding" /\ reqs[r].session = s
                 /\ reqs[r].engine \in LiveEngines(s)) => reqs[r].engine = sessions[s]
        /\ \A r \in Requests :
              (reqs[r].pc = "holding" /\ reqs[r].session = s) => reqs[r].engine # Absent

\* C13 witness: two requests that arrived together with the same new session
\* id are both in flight and hold the one engine constructed for it.
C13_Witness ==
    /\ reqs["r1"].pc = "holding"
    /\ reqs["r2"].pc = "holding"
    /\ reqs["r1"].session = reqs["r2"].session
    /\ reqs["r1"].engine = reqs["r2"].engine
    /\ reqs["r1"].engine = sessions[reqs["r1"].session]
    /\ Cardinality({ e \in EngineIds : engines[e].born }) = 1

\* no engine is registered for, or held by a request of, a session id other
\* than the one it was constructed for
NoSharedEngine ==
    /\ \A s \in SessionIds : sessions[s] # Absent => engines[sessions[s]].owner = s
    /\ \A r \in Requests :
          reqs[r].pc = "holding" => engines[reqs[r].engine].owner = reqs[r].session

\* C14: sessions are isolated: an engine belongs to one session id only; its
\* index changes only when an upload of its own session completes; the entry
\* of a session changes only by get_engine or clear_session on that id; and
\* the answer of a chat is one that ask can give on the index of the engine of
\* its own session alone.  So what session Y holds and answers is what it
\* would be with the operations on X left out.
C14_SessionIsolation ==
    [][ /\ NoSharedEngine'
        /\ \A e \in EngineIds :
              (engines[e].born /\ engines'[e].vector_store # engines[e].vector_store
                 /\ engines'[e] # Collected) =>
                  \E r \in Requests :
                      /\ Answered(r, "upload")
                      /\ reqs[r].engine = e
                      /\ reqs[r].session = engines[e].owner
        /\ \A s \in SessionIds :
              sessions'[s] # sessions[s] =>
                  \/ ClearSession(s)
                  \/ \E r \in Requests : GetEngineReturns(r) /\ reqs[r].session = s
        /\ \A r \in Requests :
              Answered(r, "chat") =>
                  /\ chat_result'.session = reqs[r].session
                  /\ chat_result'.result \in
                         AskOutcomes(chat_result'.question,
                                     engines[reqs[r].engine].vector_store)
                  /\ engines[reqs[r].engine].owner = reqs[r].session
      ]_vars

\* C14 witness: session X has ingested a chunk, and a chat of session Y, whose
\* engine has no index, has just been answered with the onboarding message.
C14_Witness ==
    /\ sessions["X"] # Absent
    /\ sessions["Y"] # Absent
    /\ engines[sessions["X"]].vector_store.created
    /\ ~engines[sessions["Y"]].vector_store.created
    /\ chat_result.session = "Y"
    /\ chat_result.question = Q_what
    /\ chat_result.result.answer = ONBOARDING

\* C19: clear_session(s) removes the entry of s when it is present and is
\* otherwise a no-op that raises nothing; the entries of all other session ids
\* stay as they are.
C19_ClearSession ==
    [][ \A s \in SessionIds :
          ClearSession(s) =>
              /\ sessions' = [ sessions EXCEPT ![s] = Absent ]
              /\ sessions[s] = Absent => sessions' = sessions
              /\ ~clear_raised'
      ]_vars

\* C19 witness: the entry of X was removed by clear_session while Y kept its
\* engine, and nothing was raised.
C19_Witness ==
    /\ sessions["X"] = Absent
    /\ sessions["Y"] # Absent
    /\ \E e \in EngineIds : engines[e].evicted
    /\ ~clear_raised

\* the model's text as the user sees it: without its SOURCES marker
VisibleText(raw) ==
    IF SourcesMatch(raw).found
    THEN Strip(Replace(raw, SourcesMatch(raw).group0, << >>))
    ELSE raw

\* C21: on an engine that holds at least one chunk, Retrieval returns chunks
\* for a question that is no greeting; and an ask whose retrieved chunks carry
\* no governance marker calls the chat model once, answers with the text the
\* model returned (its SOURCES marker aside), and cites at least one chunk,
\* every citation naming a file ingested into this engine.
C21_AnswerWithCitations ==
    [][ /\ ( /\ pc = "retrieve"
             /\ pc' = "governance"
             /\ vector_store.docs # << >>
             /\ ~GreetingTrimmingSpaces(state.question) ) => retrieved' # << >>
        /\ (pc # "END" /\ pc' = "END" /\ retrieved' # << >> /\ ~Marked(retrieved')) =>
              /\ llm_calls' = 1
              /\ llm'.kind = "ok" => result'.answer = VisibleText(llm'.text)
              /\ result'.citations # << >>
              /\ \A i \in 1..Len(result'.citations) :
                    \E j \in 1..Len(vector_store'.docs) :
                        result'.citations[i].source = vector_store'.docs[j].source
      ]_vars

\* C21 witness: after a.pdf was ingested, "what?" was answered with the
\* model's text "ok" and a citation of a.pdf.
C21_Witness ==
    /\ pc = "END"
    /\ state.question = Q_what
    /\ Len(vector_store.docs) = 1
    /\ llm = [ kind |-> "ok", text |-> R_plain ]
    /\ result.answer = R_plain
    /\ Len(result.citations) = 1
    /\ result.citations[1].source = F_a

\* C26 as stated: an ask whose Retrieval returned nothing because there was no
\* index (no greeting, no query issued) answers with the onboarding message,
\* whatever is ingested meanwhile; the "cannot find the answer" message is
\* given only after a query of the index or a bypassed greeting.
C26_SameIndexState ==
    /\ (pc = "END" /\ ~GreetingTrimmingSpaces(state.question) /\ index_queries = 0) =>
           result.answer = ONBOARDING
    /\ (pc = "END" /\ result.answer = NOT_FOUND) =>
           (index_queries = 1 \/ GreetingTrimmingSpaces(state.question))

\* C27: when no retrieved chunk holds a governance marker, the empty retrieval
\* included, Governance leaves is_safe true and writes no generation, the
\* pipeline goes on to node generate, and the answer is not the refusal.
C27_BlocksOnlyOnMatch ==
    (pc \in { "generate", "END", "raised" } /\ ~Marked(retrieved)) =>
        /\ state.is_safe
        /\ pc = "generate" => (state.generation = << >> /\ trace = << "retrieve", "governance" >>)
        /\ pc = "END" =>
              /\ trace = << "retrieve", "governance", "generate" >>
              /\ result.answer # REFUSAL

\* C27 witness: a greeting on an engine with a marked chunk passed Governance
\* with nothing retrieved and was answered by node generate.
C27_Witness ==
    /\ pc = "END"
    /\ retrieved = << >>
    /\ state.question = Q_hi
    /\ \E i \in 1..Len(vector_store.docs) : vector_store.docs[i].page_content = T_secret
    /\ state.is_safe
    /\ result.answer = READY

\* positions of the retrieved chunks that hold a governance marker
MarkedAt(docs) == { i \in 1..Len(docs) : Marked(<< docs[i] >>) }

\* C28: Governance decides at the first marked chunk in retrieved order and
\* tests no chunk behind it; wherever the marker sits and however many chunks
\* carry it, the outcome is is_safe false with the refusal message, and the
\* documents field is left as retrieved.
C28_FirstViolatingChunk ==
    (pc \in { "generate", "END", "raised" } /\ MarkedAt(retrieved) # { }) =>
        /\ pc = "END"
        /\ ~state.is_safe
        /\ state.generation = REFUSAL
        /\ state.documents = retrieved
        /\ GovernanceNode(retrieved).scanned = Min(MarkedAt(retrieved))

\* C28 witness: three chunks were retrieved, the first clean and the next two
\* marked, and the ask was refused with all three left in documents.
C28_Witness ==
    /\ pc = "END"
    /\ Len(retrieved) = 3
    /\ MarkedAt(retrieved) = { 2, 3 }
    /\ state.generation = REFUSAL
    /\ state.documents = retrieved

\* C29: node retrieve always returns; for a question that is no greeting it
\* returns no chunk and queries nothing when there is no index, and with an
\* index it issues one query and returns what the index gave, in that order:
\* min(3, size) chunks of the index, at most 3.
C29_RetrievalNeverFails ==
    [][ (pc = "retrieve" /\ pc' # "retrieve" /\ ~GreetingTrimmingSpaces(state.question)) =>
          /\ pc' = "governance"
          /\ ~vector_store.created =>
                (state'.documents = << >> /\ index_queries' = 0)
          /\ vector_store.created =>
                /\ index_queries' = 1
                /\ state'.documents = retrieved'
                /\ Len(state'.documents) <= 3
                /\ Len(state'.documents) = Min({ 3, Len(vector_store.docs) })
                /\ \A i \in 1..Len(state'.documents) :
                      state'.documents[i] \in Range(vector_store.docs)
      ]_vars

\* C29 witness: on an engine holding four chunks, a question was answered
\* from exactly three retrieved chunks after one query.
C29_Witness ==
    /\ Len(vector_store.docs) = 4
    /\ Retrieved
    /\ Len(retrieved) = 3
    /\ index_queries = 1

\* C30 as stated: node generate with no documents calls no chat model, keeps
\* documents empty, and answers with the onboarding message when there is no
\* index, else with the ready greeting when the question is in the greeting
\* vocabulary, else with the "cannot find the answer" message.
C30_FixedMessageOrder ==
    [][ (pc = "generate" /\ pc' # "generate" /\ state.documents = << >>) =>
          /\ llm_calls' = 0
          /\ state'.documents = << >>
          /\ state'.generation =
                IF ~vector_store.created THEN ONBOARDING
                ELSE IF GreetingTrimmingSpaces(state.question) THEN READY
                ELSE NOT_FOUND
      ]_vars

\* C24: every ask that has entered the graph reaches END: no node is entered
\* twice and at most three nodes run, and at END ask has a result with an
\* answer and a citations list.
C24_AskTerminates ==
    /\ [](/\ Len(trace) <= 3
          /\ \A i, j \in 1..Len(trace) : i # j => trace[i] # trace[j])
    /\ [](pc = "END" => /\ DOMAIN result = { "answer", "citations" }
                         /\ result.answer = state.generation
                         /\ Len(result.citations) = Len(state.documents))
    /\ (pc = "retrieve") ~> (pc = "END")

\* C24 witness: an ask whose chat model call failed ended after the three
\* nodes with the error message as its answer.
C24_Witness ==
    /\ pc = "END"
    /\ trace = << "retrieve", "governance", "generate" >>
    /\ llm.kind = "raise"
    /\ result.answer = ErrorAnswer(llm.text)

\* the first n characters of a text, newlines turned into spaces
Snippet(c, n) ==
    [ j \in 1..(IF Len(c) < n THEN Len(c) ELSE n) |-> IF c[j] = "\n" THEN " " ELSE c[j] ]

\* C22 as stated: ask returns one citation per final document, in order, with
\* the document's source and its first 150 characters (the whole content when
\* shorter), newlines replaced by spaces, followed by an ellipsis.
C22_CitationSnippet150 ==
    pc = "END" =>
        /\ Len(result.citations) = Len(state.documents)
        /\ \A i \in 1..Len(state.documents) :
              /\ result.citations[i].source = state.documents[i].source
              /\ result.citations[i].text =
                    Snippet(state.documents[i].page_content, 150) \o << ".", ".", "." >>

\* some ingest call has its worker running
WorkerRunning == \E w \in Workers : workers[w].pc # "idle"

\* the next step of request handling can be taken now: the pending node of a
\* running ask, the start of a new ask, and the start of another ingest
RequestsCanProceed ==
    /\ pc \in { "idle", "END", "raised" } => ENABLED (EventLoopFree /\ AskStart(Q_what))
    /\ pc = "retrieve" => ENABLED (EventLoopFree /\ Retrieve)
    /\ pc = "governance" => ENABLED (EventLoopFree /\ Governance)
    /\ pc = "generate" => ENABLED (EventLoopFree /\ Generate)
    /\ \A w \in Workers : workers[w].pc = "idle" =>
          ENABLED (EventLoopFree /\ IngestBegin(w, << 5 >>))

\* C23: while the worker of an ingest call runs, request handling goes on: in
\* every such state the next step of an ask and the start of another ingest
\* can be taken, these steps leave the running worker as it is (so an ask
\* starts and completes before the ingest finishes), and the worker's last
\* step resumes the caller with the number of chunks of its batch.
C23_IngestDoesNotBlock ==
    /\ [](WorkerRunning => RequestsCanProceed)
    /\ [][ /\ (pc' # pc) => workers' = workers
           /\ \A w \in Workers :
                 (workers[w].pc = "checked" /\ workers'[w].pc = "idle") =>
                     ingest_result' = [ status |-> "returned",
                                        count |-> Len(workers[w].all_chunks) ]
       ]_vars

\* C23 witness: an ask of "what?" has run to END, answered from the index,
\* and another ingest has been refused for its file type, while a worker
\* still holds the chunks of its batch.
C23_Witness ==
    /\ workers["t1"].pc = "chunked"
    /\ workers["t2"].pc = "idle"
    /\ pc = "END"
    /\ state.question = Q_what
    /\ llm_calls = 1
    /\ ingest_result.status = "raised"

\* the lifespan context stands at its yield: startup is over and shutdown has
\* not begun
Initialised == lifespan = "yielded"

\* C25: /health answers "ok" when the application is between startup and
\* shutdown and "initializing" otherwise; outside that window every /upload
\* and /chat request that arrives is answered 503, no request is admitted, no
\* chat is answered, and no engine is created or changed.
C25_HealthAndUnavailable ==
    [][ /\ http_response'.endpoint = "health" =>
              /\ http_response'.status_code = 200
              /\ http_response'.status = IF Initialised THEN "ok" ELSE "initializing"
              /\ Initialised' = Initialised
        /\ (~Initialised /\ ~Initialised') =>
              /\ reqs' = reqs
              /\ engines' = engines
              /\ sessions' = sessions
              /\ chat_result' = NoChat
              /\ http_response'.endpoint \in { "upload", "chat" } =>
                    http_response'.status_code = 503
        /\ (Initialised /\ Initialised') =>
              (http_response'.endpoint \in { "upload", "chat" } =>
                    http_response'.status_code # 503)
        /\ \A r \in Requests :
              (reqs[r].pc = "idle" /\ reqs'[r].pc # "idle") => Initialised
      ]_vars

\* C25 witness: after a shutdown that followed an upload, a /chat request was
\* answered 503 and every engine is gone.
C25_Witness ==
    /\ lifespan = "exited"
    /\ http_response.endpoint = "chat"
    /\ http_response.status_code = 503
    /\ \E e \in EngineIds : engines[e] = Collected
    /\ \A e \in EngineIds : engines[e] \in { Unborn, Collected }

\* C31: the chat model is invoked at most once per ask, and only in node
\* generate after Governance emitted safe on a non-empty retrieved set: never
\* for a greeting, never without an index query, never on the unsafe path.
C31_ChatModelAtMostOnce ==
    /\ llm_calls \in { 0, 1 }
    /\ llm_calls = 1 =>
          /\ state.is_safe
          /\ retrieved # << >>
          /\ ~Marked(retrieved)
          /\ index_queries = 1
          /\ ~GreetingTrimmingSpaces(state.question)
          /\ trace = << "retrieve", "governance", "generate" >>
    /\ (llm_calls = 0) <=> (llm = NoLlm)

\* C31 witness: a greeting asked on an engine with an index went through the
\* three nodes without a model call.
C31_Witness ==
    /\ pc = "END"
    /\ state.question = Q_hello
    /\ vector_store.docs # << >>
    /\ trace = << "retrieve", "governance", "generate" >>
    /\ llm_calls = 0

\* a is b with some of its elements left out
RECURSIVE IsSubsequence(_, _)
IsSubsequence(a, b) ==
    IF a = << >> THEN TRUE
    ELSE IF b = << >> THEN FALSE
    ELSE IF Head(a) = Head(b) THEN IsSubsequence(Tail(a), Tail(b))
    ELSE IsSubsequence(a, Tail(b))

\* C32: at every point of an ask the documents are an order-preserving
\* subsequence of what Retrieval returned, all of it taken from the engine's
\* index; ask returns one citation per final document, hence at most 3.
C32_FinalDocumentsSubsequence ==
    /\ IsSubsequence(state.documents, retrieved)
    /\ Len(retrieved) <= 3
    /\ \A i \in 1..Len(retrieved) : retrieved[i] \in Range(vector_store.docs)
    /\ pc = "END" =>
          /\ Len(result.citations) = Len(state.documents)
          /\ Len(result.citations) <= 3
          /\ \A i \in 1..Len(result.citations) :
                result.citations[i].source = state.documents[i].source

\* C32 witness: of three retrieved chunks, reconciliation kept two, in
\* retrieved order, and both are cited.
C32_Witness ==
    /\ pc = "END"
    /\ Len(retrieved) = 3
    /\ Len(state.documents) = 2
    /\ state.documents[1] # state.documents[2]
    /\ Len(result.citations) = 2

\* C33 as stated: when reconciliation kept a non-empty filtered set, every
\* cited chunk's source is, ignoring case, one of the names the model listed.
C33_OnlyListedFilesCited ==
    (pc = "END" /\ HasMarker /\ SelectSeq(retrieved, Listed) # << >>) =>
        \A i \in 1..Len(result.citations) :
            \E n \in Range(ListedNames) : Lower(result.citations[i].source) = Lower(n)

\* C36: clear_session(s) on a session that has an engine leaves s without an
\* entry; the get_engine(s) that finds no entry constructs an engine never
\* returned before, with no index, and registers it; and a chat answered on
\* an engine without an index returns the onboarding message with no
\* citation, whatever was ingested into the session's earlier engine.
C36_ClearThenNewEngine ==
    [][ /\ \A s \in SessionIds :
              (ClearSession(s) /\ sessions[s] # Absent) =>
                  /\ sessions'[s] = Absent
                  /\ engines'[sessions[s]].evicted
        /\ \A r \in Requests :
              (GetEngineReturns(r) /\ sessions[reqs[r].session] = Absent) =>
                  LET e == reqs'[r].engine
                  IN  /\ e \in EngineIds
                      /\ ~engines[e].born
                      /\ \A e2 \in EngineIds : engines[e2].born => e2 # e
                      /\ engines'[e].born
                      /\ engines'[e].vector_store = NoIndex
                      /\ sessions'[reqs[r].session] = e
        /\ \A r \in Requests :
              (Answered(r, "chat") /\ ~engines[reqs[r].engine].vector_store.created) =>
                  /\ chat_result'.result.answer = ONBOARDING
                  /\ chat_result'.result.citations = << >>
      ]_vars

\* C36 witness: a request still holds the engine of X that clear_session
\* removed, with its chunk; X has a new engine without an index, and the chat
\* just answered on X returned the onboarding message.
C36_Witness ==
    /\ \E e \in EngineIds :
          /\ engines[e].owner = "X"
          /\ engines[e].evicted
          /\ engines[e].vector_store.docs # << >>
    /\ sessions["X"] # Absent
    /\ engines[sessions["X"]].vector_store = NoIndex
    /\ chat_result.session = "X"
    /\ chat_result.question = Q_what
    /\ chat_result.result.answer = ONBOARDING

C34_AskReadOnly ==
    [][ /\ (pc' # pc \/ other'.pc # other.pc) =>
              /\ vector_store' = vector_store
              /\ ingest_result' = ingest_result
              /\ thread_vars' = thread_vars
              /\ registry_vars' = registry_vars
        /\ pc' # pc => other' = other
        /\ other'.pc # other.pc => (state' = state /\ result' = result /\ pc' = pc)
        /\ (pc # "END" /\ pc' = "END") =>
              result' \in AskOutcomesFor(state'.question, vector_store, { llm' })
        /\ (other.pc # "END" /\ other'.pc = "END") =>
              other'.result \in
                  AskOutcomesFor(other'.state.question, vector_store, { other'.llm })
      ]_vars

\* C34 witness: on an index of two chunks, "what?" and "hi" ran at once; the
\* first ended with the model's answer and a citation, the second with the
\* ready greeting.
C34_Witness ==
    /\ Len(vector_store.docs) = 2
    /\ pc = "END"
    /\ state.question = Q_what
    /\ llm_calls = 1
    /\ result.citations # << >>
    /\ other.pc = "END"
    /\ other.state.question = Q_hi
    /\ other.result.answer = READY

\* C37 as stated: whatever fails inside the pipeline, the ask ends at the
\* engine with a result for its caller, an answer that reports the failure,
\* and not with an exception; the step leaves the index and the registry as
\* they are.
C37_FailureCaughtAtEngine ==
    [][ (pc \in { "retrieve", "governance", "generate" }
            /\ pc' \notin { "retrieve", "governance", "generate" }) =>
          /\ pc' = "END"
          /\ result'.answer # << >>
          /\ vector_store' = vector_store
          /\ registry_vars' = registry_vars
      ]_vars

====
